---- MODULE Spec2Model ----
(***************************************************************************)
(* Model of the RLP type cache (src/rlp/typecache.go): the map typeCache   *)
(* guarded by typeCacheMutex, the double-checked lookup cachedTypeInfo,    *)
(* the recursive builder cachedTypeInfo1 / genTypeInfo / structFields and  *)
(* the struct tag parser parseStructTag.  Every goroutine is a thread with *)
(* an explicit call stack; one step of the model is one statement (or one  *)
(* straight-line group of statements) of the source.                       *)
(***************************************************************************)
EXTENDS Integers, Sequences, FiniteSets, TLC

(***************************************************************************)
(* Bounds of the model.                                                    *)
(***************************************************************************)
NumThreads == 2
MaxCalls == 2
MaxSeqCalls == 3
MaxTokens == 3
MaxFields == 2
MaxWrites == 2

Threads == 1..NumThreads

(***************************************************************************)
(* tags (typecache.go:41-50) and typekey (typecache.go:52-57).             *)
(***************************************************************************)
tags == [nilOK : BOOLEAN, tail : BOOLEAN, ignored : BOOLEAN]

NoTags == [nilOK |-> FALSE, tail |-> FALSE, ignored |-> FALSE]

NilOK == [nilOK |-> TRUE, tail |-> FALSE, ignored |-> FALSE]

typekeyNoTags(typ, ts) == [typ |-> typ, tags |-> NoTags]

typekey(typ, ts) == [typ |-> typ, tags |-> ts]

(***************************************************************************)
(* The reflected types the callers use.  A tag is the value of the field's *)
(* rlp key, a sequence of characters.                                      *)
(*   Node    struct { z uint; S chan `-`; Next *Node `nil`;                *)
(*                    R Rec ` tail` }                                      *)
(*   Rec     []Rec                                                         *)
(*   Bad     struct { P *Bad; X uint `tail` }                              *)
(*   GenErr  struct { A uint; D DecOnly }                                  *)
(*   Trail   struct { T Rec `tail`; z uint }                               *)
(*   Mid     struct { T Rec `tail`; U uint }                               *)
(*   chan    a kind neither generator supports                             *)
(*   DecOnly a map type that decodes itself (it has a DecodeRLP method)    *)
(*           and that the writer generator does not support                *)
(***************************************************************************)
Types == {"uint", "chan", "DecOnly", "Node", "*Node", "Rec", "Bad", "*Bad",
          "GenErr", "Trail", "Mid"}

Field(name, exported, tag, typ) ==
    [name |-> name, exported |-> exported, tag |-> tag, typ |-> typ]

Kind(typ) ==
    CASE typ = "uint" -> "Uint"
      [] typ = "chan" -> "Chan"
      [] typ = "DecOnly" -> "Map"
      [] typ \in {"*Node", "*Bad"} -> "Ptr"
      [] typ = "Rec" -> "Slice"
      [] OTHER -> "Struct"

Elem(typ) ==
    CASE typ = "*Node" -> "Node"
      [] typ = "*Bad" -> "Bad"
      [] typ = "Rec" -> "Rec"
      [] OTHER -> ""

Fields(typ) ==
    CASE typ = "Node" ->
           << Field("z", FALSE, <<>>, "uint"),
              Field("S", TRUE, <<"-">>, "chan"),
              Field("Next", TRUE, <<"n", "i", "l">>, "*Node"),
              Field("R", TRUE, <<" ", "t", "a", "i", "l">>, "Rec") >>
      [] typ = "Bad" ->
           << Field("P", TRUE, <<>>, "*Bad"),
              Field("X", TRUE, <<"t", "a", "i", "l">>, "uint") >>
      [] typ = "GenErr" ->
           << Field("A", TRUE, <<>>, "uint"),
              Field("D", TRUE, <<>>, "DecOnly") >>
      [] typ = "Trail" ->
           << Field("T", TRUE, <<"t", "a", "i", "l">>, "Rec"),
              Field("z", FALSE, <<>>, "uint") >>
      [] typ = "Mid" ->
           << Field("T", TRUE, <<"t", "a", "i", "l">>, "Rec"),
              Field("U", TRUE, <<>>, "uint") >>
      [] OTHER -> << >>

NumField(typ) == Len(Fields(typ))

(***************************************************************************)
(* The keys the callers of cachedTypeInfo pass.                            *)
(***************************************************************************)
Arg(typ, ts) == [typ |-> typ, tags |-> ts]

Inputs ==
    { Arg("Node", NoTags), Arg("*Node", NoTags), Arg("Bad", NoTags),
      Arg("*Bad", NoTags), Arg("GenErr", NoTags) }

TailTag == [nilOK |-> FALSE, tail |-> TRUE, ignored |-> FALSE]

\* The keys of the callers that try struct layouts with a tail field.
LayoutInputs == Inputs \cup { Arg("Trail", NoTags), Arg("Mid", NoTags) }

\* The keys a build started from LayoutInputs can ask for.
Keys ==
    LayoutInputs \cup { Arg("uint", NoTags), Arg("DecOnly", NoTags),
                        Arg("*Node", NilOK), Arg("Rec", NoTags),
                        Arg("Rec", TailTag) }

(***************************************************************************)
(* Errors.  parseStructTag builds three different messages                 *)
(* (typecache.go:144, 147, 150); the generator has its own.                *)
(***************************************************************************)
NoErr == "nil"
TagPositionError == "must be on last field"
TagTypeError == "field type is not slice"
TagSyntaxError == "unknown struct tag"
GenerationError == "type is not RLP-serializable"

TagErrors == {TagPositionError, TagTypeError, TagSyntaxError}

(***************************************************************************)
(* strings.Split(s, ",") and strings.TrimSpace (typecache.go:134-135).     *)
(***************************************************************************)
RECURSIVE IndexComma(_, _)
IndexComma(s, i) ==
    IF i > Len(s) THEN 0
    ELSE IF s[i] = "," THEN i
    ELSE IndexComma(s, i + 1)

RECURSIVE Split(_)
Split(s) ==
    LET i == IndexComma(s, 1)
    IN  IF i = 0 THEN << s >>
        ELSE << SubSeq(s, 1, i - 1) >> \o Split(SubSeq(s, i + 1, Len(s)))

IsSpace(c) == c \in {" ", "\t"}

RECURSIVE TrimLeft(_)
TrimLeft(s) ==
    IF s # << >> /\ IsSpace(Head(s)) THEN TrimLeft(Tail(s)) ELSE s

RECURSIVE TrimRight(_)
TrimRight(s) ==
    IF s # << >> /\ IsSpace(s[Len(s)])
    THEN TrimRight(SubSeq(s, 1, Len(s) - 1))
    ELSE s

\* line 135 left out: the token is compared as it stands
KeepSpace(s) == s

TrimSpace(s) == TrimRight(TrimLeft(s))

(***************************************************************************)
(* parseStructTag (typecache.go:131-154), generalised over the struct      *)
(* layout: the tag string, the field index, the field count of the struct  *)
(* and the field's kind.  It returns the tags built so far and the error.  *)
(***************************************************************************)
\* lines 143-148 in the other order: the kind is looked at before the position
RECURSIVE parseTokensTypeFirst(_, _, _, _, _, _)
parseTokensTypeFirst(toks, j, ts, fi, nf, kind) ==
    IF j > Len(toks) THEN [tags |-> ts, err |-> NoErr]
    ELSE LET t == TrimSpace(toks[j])
         IN  CASE t = << >> -> parseTokensTypeFirst(toks, j + 1, ts, fi, nf, kind)
               [] t = << "-" >> ->
                    parseTokensTypeFirst(toks, j + 1, [ts EXCEPT !.ignored = TRUE],
                                         fi, nf, kind)
               [] t = << "n", "i", "l" >> ->
                    parseTokensTypeFirst(toks, j + 1, [ts EXCEPT !.nilOK = TRUE],
                                         fi, nf, kind)
               [] t = << "t", "a", "i", "l" >> ->
                    LET ts1 == [ts EXCEPT !.tail = TRUE]
                    IN  IF kind # "Slice"
                        THEN [tags |-> ts1, err |-> TagTypeError]
                        ELSE IF fi # nf - 1
                        THEN [tags |-> ts1, err |-> TagPositionError]
                        ELSE parseTokensTypeFirst(toks, j + 1, ts1, fi, nf, kind)
               [] OTHER -> [tags |-> ts, err |-> TagSyntaxError]

RECURSIVE parseTokens(_, _, _, _, _, _)
parseTokens(toks, j, ts, fi, nf, kind) ==
    IF j > Len(toks) THEN [tags |-> ts, err |-> NoErr]
    ELSE LET t == TrimSpace(toks[j])
         IN  CASE t = << >> -> parseTokens(toks, j + 1, ts, fi, nf, kind)
               [] t = << "-" >> ->
                    parseTokens(toks, j + 1, [ts EXCEPT !.ignored = TRUE],
                                fi, nf, kind)
               [] t = << "n", "i", "l" >> ->
                    parseTokens(toks, j + 1, [ts EXCEPT !.nilOK = TRUE],
                                fi, nf, kind)
               [] t = << "t", "a", "i", "l" >> ->
                    LET ts1 == [ts EXCEPT !.tail = TRUE]
                    IN  IF fi # nf - 1
                        THEN [tags |-> ts1, err |-> TagPositionError]
                        ELSE IF kind # "Slice"
                        THEN [tags |-> ts1, err |-> TagTypeError]
                        ELSE parseTokens(toks, j + 1, ts1, fi, nf, kind)
               [] OTHER -> [tags |-> ts, err |-> TagSyntaxError]

parseTag(tag, fi, nf, kind) == parseTokens(Split(tag), 1, NoTags, fi, nf, kind)

\* fi is the Go index (from 0) of the field in typ.
parseStructTag(typ, fi) ==
    LET f == Fields(typ)[fi + 1]
    IN  parseTag(f.tag, fi, NumField(typ), Kind(f.typ))

(***************************************************************************)
(* The tags parseStructTag is run on by itself: up to MaxTokens tokens      *)
(* joined by commas, on field fi of a struct of nf fields (nf at most       *)
(* MaxFields), the field being of a slice kind or not.  A token is a word   *)
(* as written in the tag (text), with blanks around it or without.          *)
(***************************************************************************)
Token(word, text) == [word |-> word, text |-> text]

Tokens ==
    { Token("", << >>), Token("", << " " >>),
      Token("-", << "-" >>),
      Token("nil", << "n", "i", "l" >>),
      Token("nil", << "n", "i", "l", " " >>),
      Token("tail", << "t", "a", "i", "l" >>),
      Token("tail", << " ", "t", "a", "i", "l" >>),
      Token("x", << "x" >>) }

\* strings.Join(texts, ","): the tag as the struct declares it
RECURSIVE Join(_)
Join(toks) ==
    IF Len(toks) = 1 THEN toks[1].text
    ELSE toks[1].text \o << "," >> \o Join(Tail(toks))

TagInput(toks, fi, nf, kind) == [toks |-> toks, fi |-> fi, nf |-> nf, kind |-> kind]

TagInputs ==
    { TagInput(toks, fi, nf, kind) :
        toks \in UNION { [1..n -> Tokens] : n \in 1..MaxTokens },
        fi \in 0..(MaxFields - 1),
        nf \in 1..MaxFields,
        kind \in {"Slice", "Uint"} }

NoTagInput == TagInput(<< >>, 0, 0, "")

NoParse == [tags |-> NoTags, err |-> "none"]


(***************************************************************************)
(* typeinfo objects (typecache.go:35-38) live on a heap and are named by   *)
(* the allocation that made them: the key being built, the number of the   *)
(* generation and the allocation site (line 93 or line 157).  A decoder or *)
(* writer is a closure over the type, the tags and the typeinfo pointers   *)
(* the generator captured.                                                 *)
(***************************************************************************)
NilInfo == [key |-> Arg("", NoTags), n |-> 0, site |-> "nil"]

NilFunc == [typ |-> "", tags |-> NoTags, env |-> << >>]

Closure(typ, ts, env) == [typ |-> typ, tags |-> ts, env |-> env]

ZeroTypeinfo == [decoder |-> NilFunc, writer |-> NilFunc]

Finalized(ti) == ti.decoder # NilFunc /\ ti.writer # NilFunc

Ret(i, fs, fn, err) == [info |-> i, fields |-> fs, fn |-> fn, err |-> err]

NoRet == Ret(NilInfo, << >>, NilFunc, NoErr)

Result(i, err) == [info |-> i, err |-> err]

NoResult == Result(NilInfo, "none")

Frame(fn, typ, ts) ==
    [fn |-> fn, pc |-> "entry", typ |-> typ, tags |-> ts, i |-> 0,
     fields |-> << >>, info |-> NilInfo]

Pop(s) == SubSeq(s, 1, Len(s) - 1)

Push(s, f) == Append(s, f)

SetTop(s, f) == [s EXCEPT ![Len(s)] = f]

VARIABLES
    typeCache,        \* typecache.go:32, a map: its domain is the keys present
    heap,             \* the typeinfo objects allocated so far
    typeCacheMutex,   \* typecache.go:29: who holds it shared / exclusive
    pc,               \* where each thread is in cachedTypeInfo
    arg,              \* the (typ, tags) of the thread's current call
    info,             \* the local info of cachedTypeInfo (line 68)
    stack,            \* the frames below cachedTypeInfo, innermost last
    ret,              \* the values returned by the frame that last returned
    result,           \* what the thread's last call of cachedTypeInfo returned
    snap,             \* history: typeCache and heap when Lock was last taken
    genCalls,         \* history: invocations of genTypeInfo, per key
    genFails,         \* history: failed invocations of genTypeInfo, per key
    ncalls,           \* history: calls of cachedTypeInfo made so far
    returned,         \* history: the first entry a call returned, per key
    start,            \* history: what held when the thread's call started
    ngen,             \* history: genTypeInfo invocations of the current call
    tagIn,            \* the tag, field index, field count and kind given to
                      \* parseStructTag when it is run by itself
    tagOut,           \* what that run of parseStructTag returned
    db,               \* memory_database.go:30, MemDatabase.db
    lock,             \* memory_database.go:31, MemDatabase.lock
    dbpc,             \* where each thread is in a method of the database
    dbop,             \* the method the thread called, with its key and value
    dbret,            \* what the thread's call is about to return
    writes,           \* memory_database.go:111, memBatch.writes
    wi,               \* memBatch.Write: the writes applied so far
    dbAtLock          \* history: db when memBatch.Write took the lock

vars == << typeCache, heap, typeCacheMutex, pc, arg, info, stack, ret, result,
           snap, genCalls, genFails, ncalls, returned, start, ngen,
           tagIn, tagOut,
           db, lock, dbpc, dbop, dbret, writes, wi, dbAtLock >>

tagvars == << tagIn, tagOut >>

dbvars == << db, lock, dbpc, dbop, dbret, writes, wi, dbAtLock >>

\* the state of the program outside the type cache
elsewhere == << tagvars, dbvars >>

shared == << typeCache, heap, genCalls, genFails >>

hist == << snap, ncalls, returned, start >>

Present(c, key) == key \in DOMAIN c

\* m[key] of a Go map: the zero value (a nil pointer) when key is absent.
MapGet(c, key) == IF key \in DOMAIN c THEN c[key] ELSE NilInfo

MapSet(c, key, v) == [k \in DOMAIN c \cup {key} |-> IF k = key THEN v ELSE c[k]]

MapDelete(c, key) == [k \in DOMAIN c \ {key} |-> c[k]]

InitCache ==
    /\ typeCache = << >>
    /\ heap = << >>
    /\ typeCacheMutex = [readers |-> {}, writer |-> 0]
    /\ pc = [t \in Threads |-> "idle"]
    /\ arg = [t \in Threads |-> Arg("", NoTags)]
    /\ info = [t \in Threads |-> NilInfo]
    /\ stack = [t \in Threads |-> << >>]
    /\ ret = [t \in Threads |-> NoRet]
    /\ result = [t \in Threads |-> NoResult]
    /\ snap = [cache |-> << >>, heap |-> << >>]
    /\ genCalls = [k \in Keys |-> 0]
    /\ genFails = [k \in Keys |-> 0]
    /\ ncalls = 0
    /\ returned = [k \in LayoutInputs |-> NilInfo]
    /\ start = [t \in Threads |->
                  [present |-> FALSE, gens |-> 0, fails |-> 0, memo |-> NilInfo,
                   retry |-> FALSE]]
    /\ ngen = [t \in Threads |-> 0]

\* parseStructTag is not run by itself
TagIdle == tagIn = NoTagInput /\ tagOut = NoParse

(***************************************************************************)
(* MemDatabase and memBatch (src/ethdb/memory_database.go): the keys and   *)
(* values the callers use, and the state after NewMemDatabase and          *)
(* NewBatch.                                                               *)
(***************************************************************************)
DBKeys == {"a"}

DBValues == {"x", "y"}

\* memory_database.go:104-107
kv(k, v, del) == [k |-> k, v |-> v, del |-> del]

Op(name, k, v) == [name |-> name, k |-> k, v |-> v]

NoOp == Op("", "", "")

DBRet(name, out) == [name |-> name, out |-> out]

MemInit ==
    /\ db = << >>
    /\ lock = [readers |-> {}, writer |-> 0]
    /\ dbpc = [t \in Threads |-> "idle"]
    /\ dbop = [t \in Threads |-> NoOp]
    /\ dbret = [t \in Threads |-> DBRet("", "")]
    /\ writes = << >>
    /\ wi = 0
    /\ dbAtLock = << >>

Init == InitCache /\ TagIdle /\ MemInit

(***************************************************************************)
(* sync.RWMutex: RLock waits while a writer holds the mutex, Lock waits    *)
(* while anyone holds it.                                                  *)
(***************************************************************************)
CanRLockAlways(m) == TRUE

CanRLock(m) == m.writer = 0

CanLockAlways(m) == TRUE

\* Lock waits for a writer only, as a plain mutex among the writers would
CanLockNoReaders(m) == m.writer = 0

CanLock(m) == m.writer = 0 /\ m.readers = {}

\* line 78 left out: the mutex stays held when cachedTypeInfo returns
KeepLocked(m) == m

\* line 78: defer typeCacheMutex.Unlock()
Unlock(m) == [m EXCEPT !.writer = 0]

(***************************************************************************)
(* The statements of cachedTypeInfo1 that touch the map (typecache.go:85,  *)
(* 93, 98, 101), as functions of the map and the heap.                     *)
(***************************************************************************)
NewInfo(key, n, site) == [key |-> key, n |-> n, site |-> site]

\* line 98 left out: the dummy stays in the map
KeepDummy(c, key) == c

\* the whole map is dropped instead of line 98
RemoveAll(c, key) == << >>

\* line 98: delete(typeCache, key)
RemoveDummy(c, key) == MapDelete(c, key)

\* typeCache[key] = info instead of line 101: the map entry is replaced
StoreReplace(c, h, key, i) == [cache |-> MapSet(c, key, i), heap |-> h]

\* line 101: *typeCache[key] = *info, a copy into the object the map holds
StoreInPlace(c, h, key, i) ==
    [cache |-> c, heap |-> [h EXCEPT ![c[key]] = h[i]]]

(***************************************************************************)
(* cachedTypeInfo (typecache.go:65-80).                                    *)
(***************************************************************************)
CallUpTo(t, a, max) ==
    /\ pc[t] \in {"idle", "done"}
    /\ ncalls < max
    /\ ncalls' = ncalls + 1
    /\ pc' = [pc EXCEPT ![t] = "L66"]
    /\ arg' = [arg EXCEPT ![t] = a]
    /\ info' = [info EXCEPT ![t] = NilInfo]
    /\ result' = [result EXCEPT ![t] = NoResult]
    /\ ret' = [ret EXCEPT ![t] = NoRet]
    /\ ngen' = [ngen EXCEPT ![t] = 0]
    /\ start' = [start EXCEPT ![t] =
                   [present |-> Present(typeCache, a),
                    gens |-> genCalls[a], fails |-> genFails[a],
                    memo |-> returned[a],
                    retry |-> /\ arg[t] = a
                              /\ result[t].err \notin {NoErr, "none"}]]
    /\ UNCHANGED << shared, typeCacheMutex, stack, snap, returned, elsewhere >>

\* a call by one of several threads
Call(t, a) == CallUpTo(t, a, MaxCalls)

\* a call by a thread that is the only caller
SeqCall(t, a) == CallUpTo(t, a, MaxSeqCalls)

\* line 66
RLock(t) ==
    /\ pc[t] = "L66"
    /\ CanRLock(typeCacheMutex)
    /\ typeCacheMutex' = [typeCacheMutex EXCEPT !.readers = @ \cup {t}]
    /\ pc' = [pc EXCEPT ![t] = "L68"]
    /\ UNCHANGED << shared, arg, info, stack, ret, result, hist, ngen, elsewhere >>

\* line 68
ReadCache(t) ==
    /\ pc[t] = "L68"
    /\ info' = [info EXCEPT ![t] = MapGet(typeCache, typekey(arg[t].typ, arg[t].tags))]
    /\ pc' = [pc EXCEPT ![t] = "L69"]
    /\ UNCHANGED << shared, typeCacheMutex, arg, stack, ret, result, hist, ngen,
                    elsewhere >>

\* line 69
RUnlock(t) ==
    /\ pc[t] = "L69"
    /\ typeCacheMutex' = [typeCacheMutex EXCEPT !.readers = @ \ {t}]
    /\ pc' = [pc EXCEPT ![t] = "L71"]
    /\ UNCHANGED << shared, arg, info, stack, ret, result, hist, ngen, elsewhere >>

Finish(t, r) ==
    /\ result' = [result EXCEPT ![t] = r]
    /\ returned' = [returned EXCEPT ![arg[t]] =
                      IF @ = NilInfo /\ r.err = NoErr THEN r.info ELSE @]
    /\ pc' = [pc EXCEPT ![t] = "done"]

\* lines 71-73
ReturnCached(t) ==
    /\ pc[t] = "L71"
    /\ info[t] # NilInfo
    /\ Finish(t, Result(info[t], NoErr))
    /\ UNCHANGED << shared, typeCacheMutex, arg, info, stack, ret, snap,
                    ncalls, start, ngen,
                    elsewhere >>

\* lines 77-79: Lock, and the call of cachedTypeInfo1
Lock(t) ==
    /\ pc[t] = "L71"
    /\ info[t] = NilInfo
    /\ CanLock(typeCacheMutex)
    /\ typeCacheMutex' = [typeCacheMutex EXCEPT !.writer = t]
    /\ snap' = [cache |-> typeCache, heap |-> heap]
    /\ stack' = [stack EXCEPT ![t] =
                   << Frame("cachedTypeInfo1", arg[t].typ, arg[t].tags) >>]
    /\ pc' = [pc EXCEPT ![t] = "L79"]
    /\ UNCHANGED << shared, arg, info, ret, result, ncalls, returned, start, ngen,
                    elsewhere >>

\* line 79 returns, and the deferred Unlock of line 78 runs
Return(t) ==
    /\ pc[t] = "L79"
    /\ stack[t] = << >>
    /\ typeCacheMutex' = Unlock(typeCacheMutex)
    /\ Finish(t, Result(ret[t].info, ret[t].err))
    /\ UNCHANGED << shared, arg, info, stack, ret, snap, ncalls, start, ngen,
                    elsewhere >>

(***************************************************************************)
(* The frames below cachedTypeInfo.  A frame whose pc is a call site is on *)
(* top of the stack again exactly when its callee has returned; ret then   *)
(* holds what the callee returned.                                         *)
(***************************************************************************)
InFrame(t, fn, at) ==
    /\ pc[t] = "L79"
    /\ stack[t] # << >>
    /\ stack[t][Len(stack[t])].fn = fn
    /\ stack[t][Len(stack[t])].pc = at

Top(t) == stack[t][Len(stack[t])]

Returns(t, r) ==
    /\ stack' = [stack EXCEPT ![t] = Pop(@)]
    /\ ret' = [ret EXCEPT ![t] = r]

Calls(t, at, f) ==
    /\ stack' = [stack EXCEPT ![t] = Push(SetTop(@, [Top(t) EXCEPT !.pc = at]), f)]
    /\ ret' = [ret EXCEPT ![t] = NoRet]

local == << typeCacheMutex, pc, arg, info, result, hist >>

(***************************************************************************)
(* cachedTypeInfo1 (typecache.go:83-103).                                  *)
(***************************************************************************)
\* lines 85-89 left out: the map is not looked at again under the lock
SkipRecheck(c, key) == NilInfo

\* line 85: info := typeCache[key]
Recheck(c, key) == MapGet(c, key)

\* lines 84-89: the key is in the map
CachedHit(t) ==
    /\ InFrame(t, "cachedTypeInfo1", "entry")
    /\ LET key == typekey(Top(t).typ, Top(t).tags)
       IN  /\ Recheck(typeCache, key) # NilInfo
           /\ Returns(t, Ret(Recheck(typeCache, key), << >>, NilFunc, NoErr))
    /\ UNCHANGED << shared, local, ngen, elsewhere >>

\* lines 84-95: the key is absent; the dummy goes in, genTypeInfo is called
CachedMiss(t) ==
    /\ InFrame(t, "cachedTypeInfo1", "entry")
    /\ LET key == typekey(Top(t).typ, Top(t).tags)
           dummy == NewInfo(key, genCalls[key] + 1, "L93")
       IN  /\ Recheck(typeCache, key) = NilInfo
           /\ typeCache' = MapSet(typeCache, key, dummy)
           /\ heap' = MapSet(heap, dummy, ZeroTypeinfo)
           /\ genCalls' = [genCalls EXCEPT ![key] = @ + 1]
           /\ ngen' = [ngen EXCEPT ![t] = @ + 1]
           /\ Calls(t, "L95", Frame("genTypeInfo", Top(t).typ, Top(t).tags))
    /\ UNCHANGED << genFails, local, elsewhere >>

\* lines 96-100: the generator failed
CachedFail(t) ==
    /\ InFrame(t, "cachedTypeInfo1", "L95")
    /\ ret[t].err # NoErr
    /\ LET key == typekey(Top(t).typ, Top(t).tags)
       IN  /\ typeCache' = RemoveDummy(typeCache, key)
           /\ genFails' = [genFails EXCEPT ![key] = @ + 1]
    /\ Returns(t, Ret(NilInfo, << >>, NilFunc, ret[t].err))
    /\ UNCHANGED << heap, genCalls, local, ngen, elsewhere >>

\* lines 101-102: the generator succeeded
CachedStore(t) ==
    /\ InFrame(t, "cachedTypeInfo1", "L95")
    /\ ret[t].err = NoErr
    /\ LET key == typekey(Top(t).typ, Top(t).tags)
           new == StoreInPlace(typeCache, heap, key, ret[t].info)
       IN  /\ typeCache' = new.cache
           /\ heap' = new.heap
           /\ Returns(t, Ret(new.cache[key], << >>, NilFunc, NoErr))
    /\ UNCHANGED << genCalls, genFails, local, ngen, elsewhere >>

(***************************************************************************)
(* genTypeInfo (typecache.go:156-167).                                     *)
(***************************************************************************)
\* lines 157-159: info = new(typeinfo), and the call of makeDecoder
GenStart(t) ==
    /\ InFrame(t, "genTypeInfo", "entry")
    /\ LET key == typekey(Top(t).typ, Top(t).tags)
           i == NewInfo(key, genCalls[key], "L157")
       IN  /\ heap' = MapSet(heap, i, ZeroTypeinfo)
           /\ stack' = [stack EXCEPT ![t] =
                          Push(SetTop(@, [Top(t) EXCEPT !.pc = "L159", !.info = i]),
                               Frame("makeDecoder", Top(t).typ, Top(t).tags))]
           /\ ret' = [ret EXCEPT ![t] = NoRet]
    /\ UNCHANGED << typeCache, genCalls, genFails, local, ngen, elsewhere >>

\* lines 159-161: makeDecoder failed
GenDecoderErr(t) ==
    /\ InFrame(t, "genTypeInfo", "L159")
    /\ ret[t].err # NoErr
    /\ Returns(t, Ret(NilInfo, << >>, NilFunc, ret[t].err))
    /\ UNCHANGED << shared, local, ngen, elsewhere >>

\* lines 159, 162: info.decoder is set, and the call of makeWriter
GenDecoderOk(t) ==
    /\ InFrame(t, "genTypeInfo", "L159")
    /\ ret[t].err = NoErr
    /\ heap' = [heap EXCEPT ![Top(t).info].decoder = ret[t].fn]
    /\ Calls(t, "L162", Frame("makeWriter", Top(t).typ, Top(t).tags))
    /\ UNCHANGED << typeCache, genCalls, genFails, local, ngen, elsewhere >>

\* lines 162-164: makeWriter failed
GenWriterErr(t) ==
    /\ InFrame(t, "genTypeInfo", "L162")
    /\ ret[t].err # NoErr
    /\ Returns(t, Ret(NilInfo, << >>, NilFunc, ret[t].err))
    /\ UNCHANGED << shared, local, ngen, elsewhere >>

\* lines 162, 166: info.writer is set, info is returned
GenWriterOk(t) ==
    /\ InFrame(t, "genTypeInfo", "L162")
    /\ ret[t].err = NoErr
    /\ heap' = [heap EXCEPT ![Top(t).info].writer = ret[t].fn]
    /\ Returns(t, Ret(Top(t).info, << >>, NilFunc, NoErr))
    /\ UNCHANGED << typeCache, genCalls, genFails, local, ngen, elsewhere >>

(***************************************************************************)
(* makeDecoder and makeWriter, the codec generator.  For a struct the      *)
(* generator enumerates the fields (structFields); for a pointer or a      *)
(* slice it resolves the element type with empty tags through              *)
(* cachedTypeInfo1; a kind it does not support is an error.                *)
(***************************************************************************)
Makers == {"makeDecoder", "makeWriter"}

Supported(fn, kind) ==
    \/ kind \in {"Uint", "Ptr", "Slice", "Struct"}
    \/ kind = "Map" /\ fn = "makeDecoder"

MakeBasic(t, fn) ==
    /\ InFrame(t, fn, "entry")
    /\ Kind(Top(t).typ) \notin {"Ptr", "Slice", "Struct"}
    /\ Supported(fn, Kind(Top(t).typ))
    /\ Returns(t, Ret(NilInfo, << >>, Closure(Top(t).typ, Top(t).tags, << >>), NoErr))
    /\ UNCHANGED << shared, local, ngen, elsewhere >>

MakeUnsupported(t, fn) ==
    /\ InFrame(t, fn, "entry")
    /\ ~Supported(fn, Kind(Top(t).typ))
    /\ Returns(t, Ret(NilInfo, << >>, NilFunc, GenerationError))
    /\ UNCHANGED << shared, local, ngen, elsewhere >>

MakeStruct(t, fn) ==
    /\ InFrame(t, fn, "entry")
    /\ Kind(Top(t).typ) = "Struct"
    /\ Calls(t, "fields", Frame("structFields", Top(t).typ, NoTags))
    /\ UNCHANGED << shared, local, ngen, elsewhere >>

MakeStructRet(t, fn) ==
    /\ InFrame(t, fn, "fields")
    /\ Returns(t, IF ret[t].err # NoErr
                  THEN Ret(NilInfo, << >>, NilFunc, ret[t].err)
                  ELSE Ret(NilInfo, << >>,
                           Closure(Top(t).typ, Top(t).tags, ret[t].fields), NoErr))
    /\ UNCHANGED << shared, local, ngen, elsewhere >>

MakeElem(t, fn) ==
    /\ InFrame(t, fn, "entry")
    /\ Kind(Top(t).typ) \in {"Ptr", "Slice"}
    /\ Calls(t, "elem", Frame("cachedTypeInfo1", Elem(Top(t).typ), NoTags))
    /\ UNCHANGED << shared, local, ngen, elsewhere >>

MakeElemRet(t, fn) ==
    /\ InFrame(t, fn, "elem")
    /\ Returns(t, IF ret[t].err # NoErr
                  THEN Ret(NilInfo, << >>, NilFunc, ret[t].err)
                  ELSE Ret(NilInfo, << >>,
                           Closure(Top(t).typ, Top(t).tags,
                                   << [index |-> 0, info |-> ret[t].info] >>),
                           NoErr))
    /\ UNCHANGED << shared, local, ngen, elsewhere >>

(***************************************************************************)
(* structFields (typecache.go:111-129).  Frame field i is the loop index.  *)
(***************************************************************************)
\* line 112 ends the loop, line 128 returns
FieldsDone(t) ==
    /\ InFrame(t, "structFields", "entry")
    /\ Top(t).i >= NumField(Top(t).typ)
    /\ Returns(t, Ret(NilInfo, Top(t).fields, NilFunc, NoErr))
    /\ UNCHANGED << shared, local, ngen, elsewhere >>

NextField(t, f) ==
    /\ stack' = [stack EXCEPT ![t] = SetTop(@, f)]
    /\ ret' = [ret EXCEPT ![t] = NoRet]

\* line 113: the field is not exported
FieldUnexported(t) ==
    /\ InFrame(t, "structFields", "entry")
    /\ Top(t).i < NumField(Top(t).typ)
    /\ ~Fields(Top(t).typ)[Top(t).i + 1].exported
    /\ NextField(t, [Top(t) EXCEPT !.i = @ + 1])
    /\ UNCHANGED << shared, local, ngen, elsewhere >>

\* line 113 left out: every field is taken for an exported one
AnyField(t) ==
    /\ InFrame(t, "structFields", "entry")
    /\ Top(t).i < NumField(Top(t).typ)

Exported(t) ==
    /\ InFrame(t, "structFields", "entry")
    /\ Top(t).i < NumField(Top(t).typ)
    /\ Fields(Top(t).typ)[Top(t).i + 1].exported

\* lines 114-117: parseStructTag failed
FieldTagErr(t) ==
    /\ Exported(t)
    /\ LET p == parseStructTag(Top(t).typ, Top(t).i)
       IN  /\ p.err # NoErr
           /\ Returns(t, Ret(NilInfo, << >>, NilFunc, p.err))
    /\ UNCHANGED << shared, local, ngen, elsewhere >>

\* lines 118-120
FieldIgnored(t) ==
    /\ Exported(t)
    /\ LET p == parseStructTag(Top(t).typ, Top(t).i)
       IN  /\ p.err = NoErr
           /\ p.tags.ignored
    /\ NextField(t, [Top(t) EXCEPT !.i = @ + 1])
    /\ UNCHANGED << shared, local, ngen, elsewhere >>

\* line 121: the call of cachedTypeInfo1 for the field
FieldResolve(t) ==
    /\ Exported(t)
    /\ LET p == parseStructTag(Top(t).typ, Top(t).i)
       IN  /\ p.err = NoErr
           /\ ~p.tags.ignored
           /\ Calls(t, "L121",
                    Frame("cachedTypeInfo1",
                          Fields(Top(t).typ)[Top(t).i + 1].typ, p.tags))
    /\ UNCHANGED << shared, local, ngen, elsewhere >>

\* lines 122-124
FieldResolveErr(t) ==
    /\ InFrame(t, "structFields", "L121")
    /\ ret[t].err # NoErr
    /\ Returns(t, Ret(NilInfo, << >>, NilFunc, ret[t].err))
    /\ UNCHANGED << shared, local, ngen, elsewhere >>

\* line 125
FieldAppend(t) ==
    /\ InFrame(t, "structFields", "L121")
    /\ ret[t].err = NoErr
    /\ NextField(t, [Top(t) EXCEPT
                       !.pc = "entry",
                       !.fields = Append(@, [index |-> Top(t).i, info |-> ret[t].info]),
                       !.i = @ + 1])
    /\ UNCHANGED << shared, local, ngen, elsewhere >>

Step(t) ==
    \/ RLock(t)
    \/ ReadCache(t)
    \/ RUnlock(t)
    \/ ReturnCached(t)
    \/ Lock(t)
    \/ Return(t)
    \/ CachedHit(t)
    \/ CachedMiss(t)
    \/ CachedFail(t)
    \/ CachedStore(t)
    \/ GenStart(t)
    \/ GenDecoderErr(t)
    \/ GenDecoderOk(t)
    \/ GenWriterErr(t)
    \/ GenWriterOk(t)
    \/ \E fn \in Makers :
          \/ MakeBasic(t, fn)
          \/ MakeUnsupported(t, fn)
          \/ MakeStruct(t, fn)
          \/ MakeStructRet(t, fn)
          \/ MakeElem(t, fn)
          \/ MakeElemRet(t, fn)
    \/ FieldsDone(t)
    \/ FieldUnexported(t)
    \/ FieldTagErr(t)
    \/ FieldIgnored(t)
    \/ FieldResolve(t)
    \/ FieldResolveErr(t)
    \/ FieldAppend(t)

\* NumThreads threads call cachedTypeInfo concurrently, MaxCalls times in all.
Next ==
    \E t \in Threads :
        \/ \E a \in Inputs : Call(t, a)
        \/ Step(t)

Spec == Init /\ [][Next]_vars

\* One thread calls cachedTypeInfo MaxSeqCalls times, one call after another.
NextSeq ==
    \/ \E a \in Inputs : SeqCall(1, a)
    \/ Step(1)

SpecSeq == Init /\ [][NextSeq]_vars

\* The goroutines are scheduled fairly: a thread that can take a step of
\* cachedTypeInfo, and can do so from then on, takes it.  The callers ask for
\* a struct with a recursive field, a struct whose tag is rejected and a
\* struct whose field the generator rejects.
FairInputs == { Arg("Node", NoTags), Arg("Bad", NoTags), Arg("GenErr", NoTags) }

NextFair ==
    \E t \in Threads :
        \/ \E a \in FairInputs : Call(t, a)
        \/ Step(t)

SpecFair == Init /\ [][NextFair]_vars /\ \A t \in Threads : WF_vars(Step(t))

\* One thread calls cachedTypeInfo MaxSeqCalls times, one call after another,
\* for the struct layouts with a tail field as well.
NextLayout ==
    \/ \E a \in LayoutInputs : SeqCall(1, a)
    \/ Step(1)

SpecLayout == Init /\ [][NextLayout]_vars

(***************************************************************************)
(* parseStructTag run by itself on one field of one struct layout.         *)
(***************************************************************************)
cachevars == << typeCache, heap, typeCacheMutex, pc, arg, info, stack, ret,
                result, snap, genCalls, genFails, ncalls, returned, start, ngen >>

InitTag ==
    /\ InitCache
    /\ MemInit
    /\ tagIn \in { i \in TagInputs : i.fi < i.nf }
    /\ tagOut = NoParse

\* lines 131-154
ParseStructTag ==
    /\ tagOut = NoParse
    /\ tagOut' = parseTag(Join(tagIn.toks), tagIn.fi, tagIn.nf, tagIn.kind)
    /\ UNCHANGED << tagIn, cachevars, dbvars >>

NextTag == ParseStructTag

SpecTag == InitTag /\ [][NextTag]_vars

(***************************************************************************)
(* MemDatabase (memory_database.go:46-102).  A thread that has called a    *)
(* method is at Lock or RLock (waiting for db.lock), at write or read (it  *)
(* holds db.lock and is at the statement that accesses db.db), at return   *)
(* (the deferred unlock is still to run) or, for Len, at line 101.         *)
(***************************************************************************)
outsideDB == << cachevars, tagvars >>

MemCall(t, op, at) ==
    /\ dbpc[t] = "idle"
    /\ dbop' = [dbop EXCEPT ![t] = op]
    /\ dbpc' = [dbpc EXCEPT ![t] = at]
    /\ UNCHANGED << db, lock, dbret, writes, wi, dbAtLock, outsideDB >>

\* line 46
Put(t, k, v) == MemCall(t, Op("Put", k, v), "Lock")

\* line 55
Has(t, k) == MemCall(t, Op("Has", k, ""), "RLock")

\* line 63
Get(t, k) == MemCall(t, Op("Get", k, ""), "RLock")

\* line 74
MemKeys(t) == MemCall(t, Op("Keys", "", ""), "RLock")

\* line 86
Delete(t, k) == MemCall(t, Op("Delete", k, ""), "Lock")

\* line 100
MemLen(t) == MemCall(t, Op("Len", "", ""), "L101")

\* lines 47, 87: db.lock.Lock()
MemLock(t) ==
    /\ dbpc[t] = "Lock"
    /\ CanLock(lock)
    /\ lock' = [lock EXCEPT !.writer = t]
    /\ dbpc' = [dbpc EXCEPT ![t] = "write"]
    /\ UNCHANGED << db, dbop, dbret, writes, wi, dbAtLock, outsideDB >>

\* line 50: db.db[string(key)] = common.CopyBytes(value)
PutStore(t) ==
    /\ dbpc[t] = "write"
    /\ dbop[t].name = "Put"
    /\ db' = MapSet(db, dbop[t].k, dbop[t].v)
    /\ dbpc' = [dbpc EXCEPT ![t] = "return"]
    /\ UNCHANGED << lock, dbop, dbret, writes, wi, dbAtLock, outsideDB >>

\* line 90: delete(db.db, string(key))
DeleteRemove(t) ==
    /\ dbpc[t] = "write"
    /\ dbop[t].name = "Delete"
    /\ db' = MapDelete(db, dbop[t].k)
    /\ dbpc' = [dbpc EXCEPT ![t] = "return"]
    /\ UNCHANGED << lock, dbop, dbret, writes, wi, dbAtLock, outsideDB >>

\* lines 48, 88: the deferred db.lock.Unlock(), and the return
MemUnlock(t) ==
    /\ dbpc[t] = "return"
    /\ dbop[t].name \in {"Put", "Delete"}
    /\ lock' = Unlock(lock)
    /\ dbop' = [dbop EXCEPT ![t] = NoOp]
    /\ dbpc' = [dbpc EXCEPT ![t] = "idle"]
    /\ UNCHANGED << db, dbret, writes, wi, dbAtLock, outsideDB >>

\* lines 56, 64, 75: db.lock.RLock()
MemRLock(t) ==
    /\ dbpc[t] = "RLock"
    /\ CanRLock(lock)
    /\ lock' = [lock EXCEPT !.readers = @ \cup {t}]
    /\ dbpc' = [dbpc EXCEPT ![t] = "read"]
    /\ UNCHANGED << db, dbop, dbret, writes, wi, dbAtLock, outsideDB >>

\* What Has (line 59), Get (lines 67-70) and Keys (lines 78-82) read from m.
ReadOf(m, op) ==
    CASE op.name = "Has" -> Present(m, op.k)
      [] op.name = "Get" -> IF Present(m, op.k) THEN m[op.k] ELSE "not found"
      [] OTHER -> DOMAIN m

\* lines 59, 67-70, 78-82: the method reads db.db
MemRead(t) ==
    /\ dbpc[t] = "read"
    /\ dbret' = [dbret EXCEPT ![t] = DBRet(dbop[t].name, ReadOf(db, dbop[t]))]
    /\ dbpc' = [dbpc EXCEPT ![t] = "return"]
    /\ UNCHANGED << db, lock, dbop, writes, wi, dbAtLock, outsideDB >>

\* lines 57, 65, 76: the deferred db.lock.RUnlock(), and the return
MemRUnlock(t) ==
    /\ dbpc[t] = "return"
    /\ dbop[t].name \in {"Has", "Get", "Keys"}
    /\ lock' = [lock EXCEPT !.readers = @ \ {t}]
    /\ dbop' = [dbop EXCEPT ![t] = NoOp]
    /\ dbret' = [dbret EXCEPT ![t] = DBRet("", "")]
    /\ dbpc' = [dbpc EXCEPT ![t] = "idle"]
    /\ UNCHANGED << db, writes, wi, dbAtLock, outsideDB >>

\* The thread holds db.lock exclusively and is at a statement that writes
\* db.db (lines 50, 90, 133, 136).
AtMapWrite(t) ==
    \/ dbpc[t] = "write"
    \/ dbpc[t] = "apply" /\ wi < Len(writes)

\* Line 101 reads len(db.db) without db.lock.  When a write of the map by
\* another thread is under way the read races with it and may give any
\* length.
LenOutcomes(t) ==
    IF \E u \in Threads \ {t} : AtMapWrite(u)
    THEN 0..Cardinality(DBKeys)
    ELSE {Cardinality(DOMAIN db)}

\* line 101
LenRead(t) ==
    /\ dbpc[t] = "L101"
    /\ \E n \in LenOutcomes(t) : dbret' = [dbret EXCEPT ![t] = DBRet("Len", n)]
    /\ dbpc' = [dbpc EXCEPT ![t] = "return"]
    /\ UNCHANGED << db, lock, dbop, writes, wi, dbAtLock, outsideDB >>

\* line 101: Len returns
LenReturn(t) ==
    /\ dbpc[t] = "return"
    /\ dbop[t].name = "Len"
    /\ dbop' = [dbop EXCEPT ![t] = NoOp]
    /\ dbret' = [dbret EXCEPT ![t] = DBRet("", "")]
    /\ dbpc' = [dbpc EXCEPT ![t] = "idle"]
    /\ UNCHANGED << db, lock, writes, wi, dbAtLock, outsideDB >>

(***************************************************************************)
(* memBatch (memory_database.go:109-148), used by one thread.              *)
(***************************************************************************)
\* the thread is in no method of the database
Idle(t) == dbpc[t] = "idle"

\* lines 115-119: b.writes = append(b.writes, kv{key copy, value copy, false})
BatchPut(t, k, v) ==
    /\ Idle(t)
    /\ Len(writes) < MaxWrites
    /\ writes' = Append(writes, kv(k, v, FALSE))
    /\ UNCHANGED << db, lock, dbpc, dbop, dbret, wi, dbAtLock, outsideDB >>

\* lines 121-125: b.writes = append(b.writes, kv{key copy, nil, true})
BatchDelete(t, k) ==
    /\ Idle(t)
    /\ Len(writes) < MaxWrites
    /\ writes' = Append(writes, kv(k, "", TRUE))
    /\ UNCHANGED << db, lock, dbpc, dbop, dbret, wi, dbAtLock, outsideDB >>

\* lines 145-148: b.writes = b.writes[:0]
BatchReset(t) ==
    /\ Idle(t)
    /\ writes # << >>
    /\ writes' = << >>
    /\ UNCHANGED << db, lock, dbpc, dbop, dbret, wi, dbAtLock, outsideDB >>

\* line 127
BatchWrite(t) == MemCall(t, Op("Write", "", ""), "WLock")

\* line 128: b.db.lock.Lock()
WriteLock(t) ==
    /\ dbpc[t] = "WLock"
    /\ CanLock(lock)
    /\ lock' = [lock EXCEPT !.writer = t]
    /\ wi' = 0
    /\ dbAtLock' = db
    /\ dbpc' = [dbpc EXCEPT ![t] = "apply"]
    /\ UNCHANGED << db, dbop, dbret, writes, outsideDB >>

\* the loop in the order opposite to the one the writes were added in
PendingReversed(ws, i) == ws[Len(ws) + 1 - i]

\* line 131: for _, kv := range b.writes, the i-th turn of the loop
Pending(ws, i) == ws[i]

\* lines 132-136: one turn of the loop
WriteApply(t) ==
    /\ dbpc[t] = "apply"
    /\ wi < Len(writes)
    /\ LET w == Pending(writes, wi + 1)
       IN  db' = IF w.del THEN MapDelete(db, w.k) ELSE MapSet(db, w.k, w.v)
    /\ wi' = wi + 1
    /\ UNCHANGED << lock, dbpc, dbop, dbret, writes, dbAtLock, outsideDB >>

\* lines 129, 138: the loop is over, the deferred Unlock runs, Write returns
WriteReturn(t) ==
    /\ dbpc[t] = "apply"
    /\ wi = Len(writes)
    /\ lock' = Unlock(lock)
    /\ dbop' = [dbop EXCEPT ![t] = NoOp]
    /\ dbpc' = [dbpc EXCEPT ![t] = "idle"]
    /\ wi' = 0
    /\ dbAtLock' = << >>
    /\ UNCHANGED << db, dbret, writes, outsideDB >>

\* Thread 1 has a batch of the database, of at most MaxWrites writes, and
\* uses nothing else; the other threads call the methods of the database.
Callers == Threads \ {1}

NextDB ==
    \/ \E t \in Callers :
          \/ \E k \in DBKeys, v \in DBValues : Put(t, k, v)
          \/ \E k \in DBKeys : Has(t, k) \/ Get(t, k) \/ Delete(t, k)
          \/ MemKeys(t)
          \/ MemLen(t)
          \/ MemLock(t)
          \/ PutStore(t)
          \/ DeleteRemove(t)
          \/ MemUnlock(t)
          \/ MemRLock(t)
          \/ MemRead(t)
          \/ MemRUnlock(t)
          \/ LenRead(t)
          \/ LenReturn(t)
    \/ \E k \in DBKeys, v \in DBValues : BatchPut(1, k, v)
    \/ \E k \in DBKeys : BatchDelete(1, k)
    \/ BatchReset(1)
    \/ BatchWrite(1)
    \/ WriteLock(1)
    \/ WriteApply(1)
    \/ WriteReturn(1)

SpecDB == Init /\ [][NextDB]_vars

(***************************************************************************)
(* Properties.                                                             *)
(***************************************************************************)
Done(t) == pc[t] = "done"

Ok(t) == Done(t) /\ result[t].err = NoErr

Failed(t) == Done(t) /\ result[t].err # NoErr

\* The call of t went past the shared lookup of line 68 without finding the key.
Missed(t) == info[t] = NilInfo

\* C1: whenever two threads have both finished a call for the same key that
\* was absent from the map when each of them started, and no generation of
\* that key has failed since, genTypeInfo has run exactly once for the key
\* since they started and both calls returned the same entry without error;
\* and an entry a call returns without error is finalized when it returns.
C1_OneGenerationForConcurrentCallers ==
    /\ \A t \in Threads : Ok(t) => Finalized(heap[result[t].info])
    /\ \A t1, t2 \in Threads :
          ( /\ t1 # t2
            /\ Done(t1) /\ Done(t2)
            /\ arg[t1] = arg[t2]
            /\ ~start[t1].present /\ ~start[t2].present
            /\ genFails[arg[t1]] = start[t1].fails
            /\ genFails[arg[t1]] = start[t2].fails )
          => /\ result[t1].err = NoErr
             /\ result[t1] = result[t2]
             /\ start[t1].gens = start[t2].gens
             /\ genCalls[arg[t1]] = start[t1].gens + 1

\* Two threads both missed the same absent key in the shared lookup, both
\* went through Lock, and both have returned an entry.
C1_Witness ==
    \E t1, t2 \in Threads :
        /\ t1 # t2
        /\ Ok(t1) /\ Ok(t2)
        /\ arg[t1] = arg[t2]
        /\ ~start[t1].present /\ ~start[t2].present
        /\ Missed(t1) /\ Missed(t2)
        /\ genCalls[arg[t1]] = 1

\* C2: a call for a key for which an earlier call has already returned an
\* entry returns that same entry, without error and without running
\* genTypeInfo at all, whatever calls were made in between.
C2_Memoization ==
    \A t \in Threads :
        (Done(t) /\ start[t].memo # NilInfo)
        => /\ result[t] = Result(start[t].memo, NoErr)
           /\ ngen[t] = 0

\* A third call returns the entry the first call returned, after a call for
\* another key has failed in between.
C2_Witness ==
    \E t \in Threads :
        /\ Ok(t)
        /\ ncalls = 3
        /\ start[t].memo # NilInfo
        /\ result[t].info = start[t].memo
        /\ \E k \in Inputs : k # arg[t] /\ genFails[k] > 0

\* The typeinfo pointers the decoder and the writer of ti captured.
Captured(ti) ==
    {ti.decoder.env[i].info : i \in DOMAIN ti.decoder.env}
        \cup {ti.writer.env[i].info : i \in DOMAIN ti.writer.env}

\* The exclusive section of t has run to its end and is about to return.
AtReturn(t) == pc[t] = "L79" /\ stack[t] = << >>

\* C3: a build never runs genTypeInfo more often than there are keys; an
\* inner call of cachedTypeInfo1 always goes on at once, as a hit or as a
\* miss (it never waits for the mutex its thread holds); and when a build
\* ends without error, every typeinfo pointer captured by an entry the build
\* added, the placeholder handed to a recursive inner cachedTypeInfo1
\* included, is the very object the map then holds under that pointer's key,
\* and the entry returned is the one the map holds for the key asked.
C3_RecursionSafety ==
    \A t \in Threads :
        /\ ngen[t] <= Cardinality(Keys)
        /\ InFrame(t, "cachedTypeInfo1", "entry")
           => /\ typeCacheMutex.writer = t
              /\ ENABLED (CachedHit(t) \/ CachedMiss(t))
        /\ (AtReturn(t) /\ ret[t].err = NoErr)
           => /\ ret[t].info = MapGet(typeCache, arg[t])
              /\ \A k \in DOMAIN typeCache \ DOMAIN snap.cache :
                    \A i \in Captured(heap[typeCache[k]]) :
                        MapGet(typeCache, i.key) = i

\* Node has been built: the entry for its field Next (*Node) captured the
\* entry of Node itself, and the entry of Rec ([]Rec) captured itself.
C3_Witness ==
    \E t \in Threads :
        /\ Ok(t)
        /\ arg[t] = Arg("Node", NoTags)
        /\ ngen[t] = 4
        /\ result[t].info = typeCache[Arg("Node", NoTags)]
        /\ heap[typeCache[Arg("*Node", NilOK)]].decoder.env[1].info = result[t].info
        /\ heap[typeCache[Arg("Rec", NoTags)]].decoder.env[1].info
              = typeCache[Arg("Rec", NoTags)]

\* C4: when a call has returned an error its key is not in the map, and a
\* call for the same key made right after a failed one runs genTypeInfo for
\* the key again; if it returns an entry, the entry is finalized.
C4_FailureCleanup ==
    \A t \in Threads :
        Done(t)
        => /\ result[t].err # NoErr => ~Present(typeCache, arg[t])
           /\ start[t].retry => genCalls[arg[t]] = start[t].gens + 1
           /\ result[t].err = NoErr => Finalized(heap[result[t].info])

\* A call failed, the same key was asked again at once, genTypeInfo ran
\* again and failed again.
C4_Witness ==
    \E t \in Threads :
        /\ Failed(t)
        /\ start[t].retry
        /\ ~Present(typeCache, arg[t])
        /\ genCalls[arg[t]] = 2
        /\ genFails[arg[t]] = 2

\* C5: when a call is about to return a tag error, the map holds no key it
\* did not hold when the call took the lock.
C5_NoResidualKeys ==
    \A t \in Threads :
        (AtReturn(t) /\ ret[t].err \in TagErrors)
        => DOMAIN typeCache \subseteq DOMAIN snap.cache

\* C6: whenever no build is running, every entry of the map is finalized and
\* every typeinfo pointer an entry captured is a finalized object that the
\* map holds under that pointer's key.
C6_NoPoisonedEntries ==
    typeCacheMutex.writer = 0
    => \A k \in DOMAIN typeCache :
          /\ Finalized(heap[typeCache[k]])
          /\ \A i \in Captured(heap[typeCache[k]]) :
                /\ MapGet(typeCache, i.key) = i
                /\ Finalized(heap[i])

\* C7: whenever no thread holds the mutex exclusively every entry of the map
\* is finalized; so what the shared lookup of line 68 reads is nil or a
\* finalized entry, and every entry a call of cachedTypeInfo returns is
\* finalized.
C7_NoHalfBuiltEntryExposed ==
    /\ typeCacheMutex.writer = 0
       => \A k \in DOMAIN typeCache : Finalized(heap[typeCache[k]])
    /\ \A t \in Threads :
          /\ info[t] # NilInfo => Finalized(heap[info[t]])
          /\ (Done(t) /\ result[t].err = NoErr) => Finalized(heap[result[t].info])

\* One thread is inside a build, the map holds the placeholder of the key
\* and a recursive inner call has just received it, while another thread
\* that asks for the same key is held at RLock.
C7_Witness ==
    \E t1, t2 \in Threads :
        /\ pc[t1] = "L79"
        /\ Present(typeCache, arg[t1])
        /\ ~Finalized(heap[typeCache[arg[t1]]])
        /\ ret[t1].info = typeCache[arg[t1]]
        /\ pc[t2] = "L66"
        /\ arg[t2] = arg[t1]
        /\ ~ENABLED RLock(t2)

\* C8 as stated: the object the map holds under a key is always the first
\* object that was ever installed under that key (the placeholder of the
\* key's first generation).
C8_IdentityNeverChanges ==
    \A k \in DOMAIN typeCache : typeCache[k] = NewInfo(k, 1, "L93")

\* C8, amended: no step changes the object the map holds under a key that
\* stays in the map, completion included; and a key whose entry is finalized
\* stays in the map, finalized.  (A failed generation removes the key's
\* placeholder, and a later generation installs a new object.)
C8_IdentityStableWhilePresent ==
    [][\A k \in DOMAIN typeCache :
          /\ k \in DOMAIN typeCache' => typeCache'[k] = typeCache[k]
          /\ Finalized(heap[typeCache[k]])
             => /\ k \in DOMAIN typeCache'
                /\ heap'[typeCache'[k]] = heap[typeCache[k]]]_vars

\* An entry was completed in place: the finalized object the map holds is
\* the placeholder line 93 allocated; it is the placeholder of the key's
\* second generation, the first one having failed.
C8_Witness ==
    \E k \in DOMAIN typeCache :
        /\ typeCache[k] = NewInfo(k, 2, "L93")
        /\ Finalized(heap[typeCache[k]])
        /\ genFails[k] = 1

\* C9 as stated: genTypeInfo runs at most once per key, ever.
C9_AtMostOneGenerationEver ==
    \A k \in Keys : genCalls[k] <= 1

\* C9, amended: per key, at most one generation is running or has succeeded
\* (every other one has failed); what a recursive request gets while the
\* key's generation is running is the placeholder the map holds, without
\* error; and a call during which no generation of its key failed returns a
\* finalized entry, with at most one generation of the key run meanwhile.
C9_OneGenerationAtATime ==
    /\ \A k \in Keys : genCalls[k] <= genFails[k] + 1
    /\ \A t \in Threads :
          /\ (pc[t] = "L79" /\ ret[t].info # NilInfo /\ ~Finalized(heap[ret[t].info]))
             => /\ ret[t].err = NoErr
                /\ MapGet(typeCache, ret[t].info.key) = ret[t].info
          /\ (Done(t) /\ genFails[arg[t]] = start[t].fails)
             => /\ result[t].err = NoErr
                /\ Finalized(heap[result[t].info])
                /\ genCalls[arg[t]] <= start[t].gens + 1

\* A recursive request got the placeholder of the key being generated, and
\* another thread that missed the key in the shared lookup is waiting for
\* the mutex.
C9_Witness ==
    \E t1, t2 \in Threads :
        /\ pc[t1] = "L79"
        /\ ret[t1].info # NilInfo
        /\ ~Finalized(heap[ret[t1].info])
        /\ ret[t1].info.key = arg[t1]
        /\ pc[t2] = "L71" /\ Missed(t2)
        /\ arg[t2] = arg[t1]

AtMapAccess(t) ==
    \/ InFrame(t, "cachedTypeInfo1", "entry")
    \/ InFrame(t, "cachedTypeInfo1", "L95")

\* The thread is inside the shared lookup of lines 66-69.
InLookup(t) == pc[t] \in {"L68", "L69"}

\* The thread is inside the exclusive section of lines 77-79.
InBuild(t) == pc[t] = "L79"

\* C11: the threads inside the shared lookup are exactly the ones that hold
\* the mutex shared and the threads inside a build are exactly the one that
\* holds it exclusively; while a thread is inside a build no other thread is
\* inside a build or inside the shared lookup, so at most one build is going
\* on whatever the keys; and a thread that is at a statement of
\* cachedTypeInfo1 that reads or writes the map, or that has any frame below
\* cachedTypeInfo at all, holds the mutex exclusively.
C11_ReaderWriterExclusion ==
    /\ \A t \in Threads :
          /\ InLookup(t) <=> t \in typeCacheMutex.readers
          /\ InBuild(t) <=> typeCacheMutex.writer = t
          /\ stack[t] # << >> => InBuild(t)
          /\ AtMapAccess(t) => typeCacheMutex.writer = t
          /\ InBuild(t) => \A u \in Threads \ {t} : ~InBuild(u) /\ ~InLookup(u)
    /\ typeCacheMutex.writer # 0 => typeCacheMutex.readers = {}
    /\ Cardinality({t \in Threads : InBuild(t)}) <= 1

\* A build of one key is about to fill the entry of a nested key (line 101)
\* while another thread, which asks for another key that it missed in the
\* shared lookup, waits for the mutex.
C11_Witness ==
    \E t1, t2 \in Threads :
        /\ InFrame(t1, "cachedTypeInfo1", "L95")
        /\ ret[t1].err = NoErr
        /\ Len(stack[t1]) > 1
        /\ typeCacheMutex.writer = t1
        /\ pc[t2] = "L71" /\ Missed(t2)
        /\ arg[t2] # arg[t1]
        /\ ~ENABLED Lock(t2)

(***************************************************************************)
(* What the tag given to parseStructTag says, token by token.              *)
(***************************************************************************)
Parsed == tagOut # NoParse

KnownWords == {"", "-", "nil", "tail"}

Words(in) == { in.toks[j].word : j \in DOMAIN in.toks }

IsLast(in) == in.fi = in.nf - 1

\* Token j of the tag is one parseStructTag has to reject.
Invalid(in, j) ==
    \/ in.toks[j].word \notin KnownWords
    \/ in.toks[j].word = "tail" /\ (~IsLast(in) \/ in.kind # "Slice")

\* The error token j is rejected with.
ErrOf(in, j) ==
    IF in.toks[j].word # "tail" THEN TagSyntaxError
    ELSE IF ~IsLast(in) THEN TagPositionError
    ELSE TagTypeError

\* The leftmost token to reject, 0 when there is none.
FirstInvalid(in) ==
    IF \E j \in DOMAIN in.toks : Invalid(in, j)
    THEN CHOOSE j \in DOMAIN in.toks :
             Invalid(in, j) /\ \A i \in 1..(j - 1) : ~Invalid(in, i)
    ELSE 0

LastExported(typ, fi) ==
    /\ Fields(typ)[fi + 1].exported
    /\ \A j \in (fi + 2)..NumField(typ) : ~Fields(typ)[j].exported

\* The tag of field fi of typ has the token tail.
HasTail(typ, fi) ==
    \E j \in DOMAIN Split(Fields(typ)[fi + 1].tag) :
        TrimSpace(Split(Fields(typ)[fi + 1].tag)[j]) = << "t", "a", "i", "l" >>

\* Some exported field of typ has a tail tag that I3 does not allow.
BadTail(typ) ==
    \E fi \in 0..(NumField(typ) - 1) :
        /\ Fields(typ)[fi + 1].exported
        /\ HasTail(typ, fi)
        /\ ~(LastExported(typ, fi) /\ Kind(Fields(typ)[fi + 1].typ) = "Slice")

\* C13: when structFields comes to an exported field whose tag has the token
\* tail, parseStructTag accepts the tag exactly when the field is the last
\* exported field of the struct and its kind is a slice; and a call for a
\* struct with a tail tag that is not accepted returns an error.
C13_TailOnLastExportedField ==
    \A t \in Threads :
        /\ (Exported(t) /\ HasTail(Top(t).typ, Top(t).i))
           => ( parseStructTag(Top(t).typ, Top(t).i).err = NoErr
                <=> /\ LastExported(Top(t).typ, Top(t).i)
                    /\ Kind(Fields(Top(t).typ)[Top(t).i + 1].typ) = "Slice" )
        /\ (Done(t) /\ BadTail(arg[t].typ)) => Failed(t)

\* The call of t is under way.
Calling(t) == pc[t] \notin {"idle", "done"}

\* C14: from some point on, for good, no call of cachedTypeInfo is under way
\* and the mutex is held in neither mode.  The callers make finitely many
\* calls, so this says that every call returns in the end, with an entry or
\* with an error, those that come after a failed build included, and that
\* the mutex is released on the path of the entry and on the path of the
\* error.
C14_NoResolveBlocksForever ==
    <>[](/\ \A t \in Threads : ~Calling(t)
         /\ typeCacheMutex = [readers |-> {}, writer |-> 0])

\* A build failed, and a call for the same key that started after the
\* failure took the lock, built again and returned; the mutex is free.
C14_Witness ==
    \E t1, t2 \in Threads :
        /\ t1 # t2
        /\ Failed(t1) /\ Done(t2)
        /\ arg[t1] = arg[t2]
        /\ start[t2].fails = 1
        /\ genCalls[arg[t2]] = 2
        /\ typeCacheMutex = [readers |-> {}, writer |-> 0]

(***************************************************************************)
(* MemDatabase and memBatch.                                               *)
(***************************************************************************)
\* The last write of ws that touches k, 0 when there is none.
LastWrite(ws, k) ==
    IF \E i \in DOMAIN ws : ws[i].k = k
    THEN CHOOSE i \in DOMAIN ws :
             ws[i].k = k /\ \A j \in (i + 1)..Len(ws) : ws[j].k # k
    ELSE 0

\* The map that has, for every key, what the last write of ws that touches
\* the key says, and what the map before has for a key ws does not touch.
LastWins(before, ws) ==
    LET keep == { k \in DBKeys :
                    IF LastWrite(ws, k) = 0 THEN k \in DOMAIN before
                    ELSE ~ws[LastWrite(ws, k)].del }
    IN  [k \in keep |->
           IF LastWrite(ws, k) = 0 THEN before[k] ELSE ws[LastWrite(ws, k)].v]

\* The thread is inside Has, Get or Keys and holds the lock shared.
Reading(t) ==
    /\ dbpc[t] \in {"read", "return"}
    /\ dbop[t].name \in {"Has", "Get", "Keys"}

\* Write of the batch is between its Lock and its Unlock.
Writing == dbpc[1] = "apply"

\* C15: a step that changes the writes of the batch (Put, Delete, Reset of
\* the batch) leaves the map of the database as it is; Write holds the lock
\* exclusively from before its first turn until after its last one, without
\* letting go in between; when the loop of Write is over the map is the map
\* Write found with, for every key the batch touches, what the last write
\* on that key says; and while Write is between Lock and Unlock no thread
\* is inside the shared section of Get, Has or Keys, so what they return was
\* read from a map with no batch half applied.
C15_BatchIsDeferredAndAtomic ==
    /\ [][writes' # writes => db' = db]_vars
    /\ [][(Writing /\ Writing') => (lock' = lock /\ writes' = writes)]_vars
    /\ [](Writing =>
            /\ lock = [readers |-> {}, writer |-> 1]
            /\ \A t \in Threads : ~Reading(t)
            /\ wi = Len(writes) => db = LastWins(dbAtLock, writes))
    /\ [](\A t \in Threads :
             (Reading(t) /\ dbpc[t] = "return")
             => dbret[t].out = ReadOf(db, dbop[t]))

\* Write has applied the first of two writes on one key, the second one
\* says something else, the map is not what it was nor what it will be, and
\* a thread that called Get for the key waits at RLock.
C15_Witness ==
    \E t \in Callers :
        /\ Writing
        /\ Len(writes) = 2 /\ wi = 1
        /\ writes[1].k = writes[2].k
        /\ db # dbAtLock
        /\ db # LastWins(dbAtLock, writes)
        /\ dbpc[t] = "RLock"
        /\ dbop[t] = Op("Get", writes[1].k, "")
        /\ ~ENABLED MemRLock(t)

\* The thread is at a statement that reads db.db (lines 59, 67, 78, 101).
AtMapRead(t) == dbpc[t] \in {"read", "L101"}

\* C16: a thread at a statement that reads the map holds the lock shared, a
\* thread at a statement that writes the map holds it exclusively, and
\* while a thread is at a statement that writes the map no other thread is
\* at a statement that reads or writes it.
C16_EveryAccessUnderLock ==
    \A t \in Threads :
        /\ AtMapRead(t) => t \in lock.readers
        /\ AtMapWrite(t) => lock.writer = t
        /\ AtMapWrite(t)
           => \A u \in Threads \ {t} : ~AtMapRead(u) /\ ~AtMapWrite(u)

(***************************************************************************)
(* structFields.                                                           *)
(***************************************************************************)
\* The fields of typ (Go indices) that are exported and not ignored.
Retained(typ) ==
    { i \in 0..(NumField(typ) - 1) :
        /\ Fields(typ)[i + 1].exported
        /\ ~parseStructTag(typ, i).tags.ignored }

\* The key structFields resolves for field i of typ.
FieldKey(typ, i) == typekey(Fields(typ)[i + 1].typ, parseStructTag(typ, i).tags)

\* structFields has just returned fs, without error, to the generator.
FieldsReturned(t) ==
    /\ \E fn \in Makers : InFrame(t, fn, "fields")
    /\ ret[t].err = NoErr

\* structFields is the running function of t.
InFields(t) ==
    /\ pc[t] = "L79"
    /\ stack[t] # << >>
    /\ Top(t).fn = "structFields"

\* C17: when structFields returns without error, what it returns has one
\* descriptor for each field that is exported and not ignored and no other,
\* in the order of declaration, each with the index of its field and the
\* entry the map holds for (field type, parsed tags); structFields calls
\* cachedTypeInfo1 only for an exported field whose tag parsed and does not
\* say ignored, with that field's type and parsed tags; it goes past a
\* field without a call only if the field is unexported or ignored; and
\* with a field whose tag does not parse, or whose resolution failed, its
\* next step is to return that error with no fields.
C17_FieldEnumeratorResult ==
    /\ [](\A t \in Threads :
             FieldsReturned(t)
             => LET fs == ret[t].fields
                    typ == Top(t).typ
                IN  /\ { fs[j].index : j \in DOMAIN fs } = Retained(typ)
                    /\ Len(fs) = Cardinality(Retained(typ))
                    /\ \A j \in 1..(Len(fs) - 1) : fs[j].index < fs[j + 1].index
                    /\ \A j \in DOMAIN fs :
                          /\ fs[j].info # NilInfo
                          /\ fs[j].info
                                = MapGet(typeCache, FieldKey(typ, fs[j].index)))
    /\ [][\A t \in Threads :
             (InFields(t) /\ stack'[t] # stack[t])
             => LET f == Top(t)
                    n == Len(stack[t])
                    p == parseStructTag(f.typ, f.i)
                IN  /\ Len(stack'[t]) = n + 1
                       => /\ f.pc = "entry"
                          /\ Fields(f.typ)[f.i + 1].exported
                          /\ p.err = NoErr /\ ~p.tags.ignored
                          /\ stack'[t][n + 1]
                                = Frame("cachedTypeInfo1",
                                        Fields(f.typ)[f.i + 1].typ, p.tags)
                    /\ (Len(stack'[t]) = n /\ f.pc = "entry")
                       => /\ stack'[t][n].i = f.i + 1
                          /\ stack'[t][n].fields = f.fields
                          /\ \/ ~Fields(f.typ)[f.i + 1].exported
                             \/ p.err = NoErr /\ p.tags.ignored
                    /\ (f.pc = "entry" /\ f.i < NumField(f.typ)
                          /\ Fields(f.typ)[f.i + 1].exported /\ p.err # NoErr)
                       => /\ Len(stack'[t]) = n - 1
                          /\ ret'[t].err = p.err
                          /\ ret'[t].fields = << >>
                    /\ (f.pc = "L121" /\ ret[t].err # NoErr)
                       => /\ Len(stack'[t]) = n - 1
                          /\ ret'[t].err = ret[t].err
                          /\ ret'[t].fields = << >>
                    /\ (f.pc = "L121" /\ ret[t].err = NoErr)
                       => /\ Len(stack'[t]) = n
                          /\ stack'[t][n].i = f.i + 1
                          /\ stack'[t][n].fields
                                = Append(f.fields,
                                         [index |-> f.i,
                                          info |-> MapGet(typeCache,
                                                          FieldKey(f.typ, f.i))])
            ]_vars

\* structFields has returned the fields of Node to the generator: the
\* descriptors of Next (field 2) and R (field 3), not those of z, which is
\* unexported, and S, which is ignored; the one of Next holds the entry of
\* (*Node, nil).
C17_Witness ==
    \E t \in Threads :
        /\ FieldsReturned(t)
        /\ Top(t).typ = "Node"
        /\ Len(ret[t].fields) = 2
        /\ ret[t].fields[1].index = 2
        /\ ret[t].fields[2].index = 3
        /\ ret[t].fields[1].info = typeCache[Arg("*Node", NilOK)]
        /\ ret[t].fields[2].info = typeCache[Arg("Rec", TailTag)]

\* C18: when some token of the tag is to be rejected, parseStructTag returns
\* the error of the leftmost such token, and returns just what it returns
\* for the tag cut off after that token (the tokens to the right are not
\* looked at); when no token is to be rejected it returns no error and the
\* tags in which ignored, nilOK and tail are set exactly when the words -,
\* nil and tail are among the tokens.  The words are the tokens without the
\* blanks around them, and an empty token is never rejected and sets
\* nothing.
C18_LeftmostOffendingTokenDecides ==
    Parsed
    => LET j == FirstInvalid(tagIn)
       IN  IF j > 0
           THEN /\ tagOut.err = ErrOf(tagIn, j)
                /\ tagOut = parseTag(Join(SubSeq(tagIn.toks, 1, j)),
                                     tagIn.fi, tagIn.nf, tagIn.kind)
           ELSE /\ tagOut.err = NoErr
                /\ tagOut.tags.ignored <=> "-" \in Words(tagIn)
                /\ tagOut.tags.nilOK <=> "nil" \in Words(tagIn)
                /\ tagOut.tags.tail <=> "tail" \in Words(tagIn)

\* The tag is nil with a blank, then tail with a blank on a field that is
\* not the last one, then an unknown token: the error is the position error
\* of tail, not the syntax error of the token to its right.
C18_Witness ==
    /\ Parsed
    /\ Len(tagIn.toks) = 3
    /\ tagIn.toks[1] = Token("nil", << "n", "i", "l", " " >>)
    /\ tagIn.toks[2] = Token("tail", << " ", "t", "a", "i", "l" >>)
    /\ tagIn.toks[3].word = "x"
    /\ ~IsLast(tagIn)
    /\ FirstInvalid(tagIn) = 2
    /\ tagOut.err = TagPositionError

\* C19: a call for a key never returns an entry once a resolution of that
\* key (a call of cachedTypeInfo1 for it, from cachedTypeInfo or from the
\* generator) has failed, and never returns an error once a call for the key
\* has returned an entry: whether the key resolves does not depend on the
\* calls made before.
C19_HistoryIndependence ==
    \A t \in Threads :
        /\ Ok(t) => genFails[arg[t]] = 0
        /\ Failed(t) => returned[arg[t]] = NilInfo

====
